---- MODULE Spec2Model ----
(***************************************************************************)
(* Model of InvenTree/company/serializers.py: the JSON serializers of the  *)
(* Company app.  Three specifications share the module's variables:        *)
(*   SpecFields   the serializer constructors and the field sets they keep *)
(*   Spec         SupplierPartSerializer / ManufacturerPartSerializer      *)
(*                create and update against the part tables                *)
(*   SpecCompany  CompanySerializer.save and the remote image              *)
(***************************************************************************)
EXTENDS Integers, Sequences, FiniteSets, TLC

VARIABLES
    ser,                \* the serializer object built by the last constructor call
    supplier_parts,     \* SupplierPart table: sequence of rows, pk = index
    manufacturer_parts, \* ManufacturerPart table: sequence of rows, pk = index
    calls,              \* calls made by the last create/update/save handler, in order
    last,               \* the last request: its inputs and its outcome
    now,                \* clock: number of the next request
    company_image       \* Company pk -> stored image (<<>> = none, <<file>> = a file)

vars == <<ser, supplier_parts, manufacturer_parts, calls, last, now, company_image>>

(***************************************************************************)
(* Python values.  None is the empty tuple and a value v is <<v>>, so that *)
(* "x is not None" is x # None.  A dict is a function on its keys.         *)
(***************************************************************************)
None == <<>>

Some(v) == <<v>>

\* dict.get(key, default) / dict.pop(key, default): the value read
Get(d, key, default) == IF key \in DOMAIN d THEN d[key] ELSE default

\* dict.pop(key, ...): the dict that is left
Without(d, key) == [k \in DOMAIN d \ {key} |-> d[k]]

\* every dict whose keys are among `keys`, with BOOLEAN values: constructor flags
FlagDicts(keys) == UNION {[K -> BOOLEAN] : K \in SUBSET keys}

(***************************************************************************)
(* Field sets (class Meta: fields) of the serializers of the file.         *)
(***************************************************************************)
CompanyBrief_Meta_fields == {"pk", "url", "name", "description", "image"}

ManufacturerPart_Meta_fields ==
    {"pk", "part", "part_detail", "pretty_name", "manufacturer",
     "manufacturer_detail", "description", "MPN", "link"}

ManufacturerPartParameter_Meta_fields ==
    {"pk", "manufacturer_part", "manufacturer_part_detail", "name", "value", "units"}

SupplierPart_Meta_fields ==
    {"available", "availability_updated", "description", "in_stock", "link",
     "manufacturer", "manufacturer_detail", "manufacturer_part",
     "manufacturer_part_detail", "MPN", "note", "pk", "barcode_hash", "packaging",
     "pack_size", "part", "part_detail", "pretty_name", "SKU", "supplier",
     "supplier_detail", "url", "updated"}

SupplierPriceBreak_Meta_fields ==
    {"pk", "part", "part_detail", "quantity", "price", "price_currency",
     "supplier", "supplier_detail", "updated"}

\* self.fields.pop(name) when `drop` holds
PopIf(fields, drop, name) == IF drop THEN fields \ {name} ELSE fields

(***************************************************************************)
(* The constructors: the active field set after __init__.                  *)
(***************************************************************************)
ManufacturerPartSerializer_init_prettyswap(kwargs) ==
    LET part_detail == Get(kwargs, "part_detail", TRUE)
        manufacturer_detail == Get(kwargs, "manufacturer_detail", TRUE)
        prettify == Get(kwargs, "pretty", FALSE)
        f1 == PopIf(ManufacturerPart_Meta_fields, part_detail # TRUE, "part_detail")
        f2 == PopIf(f1, manufacturer_detail # TRUE, "manufacturer_detail")
    IN  PopIf(f2, part_detail # TRUE, "pretty_name")

ManufacturerPartSerializer_init(kwargs) ==
    LET part_detail == Get(kwargs, "part_detail", TRUE)
        manufacturer_detail == Get(kwargs, "manufacturer_detail", TRUE)
        prettify == Get(kwargs, "pretty", FALSE)
        f1 == PopIf(ManufacturerPart_Meta_fields, part_detail # TRUE, "part_detail")
        f2 == PopIf(f1, manufacturer_detail # TRUE, "manufacturer_detail")
    IN  PopIf(f2, prettify # TRUE, "pretty_name")

ManufacturerPartParameterSerializer_init(kwargs) ==
    LET man_detail == Get(kwargs, "manufacturer_part_detail", FALSE)
    IN  PopIf(ManufacturerPartParameter_Meta_fields, ~man_detail,
              "manufacturer_part_detail")

SupplierPartSerializer_init_nobrief(kwargs) ==
    LET part_detail == Get(kwargs, "part_detail", TRUE)
        supplier_detail == Get(kwargs, "supplier_detail", TRUE)
        manufacturer_detail == Get(kwargs, "manufacturer_detail", TRUE)
        prettify == Get(kwargs, "pretty", FALSE)
        f1 == PopIf(SupplierPart_Meta_fields, part_detail # TRUE, "part_detail")
        f2 == PopIf(f1, supplier_detail # TRUE, "supplier_detail")
        f3 == PopIf(PopIf(f2, manufacturer_detail # TRUE, "manufacturer_detail"),
                    manufacturer_detail # TRUE, "manufacturer_part_detail")
    IN  PopIf(f3, prettify # TRUE, "pretty_name")

SupplierPartSerializer_init(kwargs) ==
    LET brief == Get(kwargs, "brief", FALSE)
        detail_default == ~brief
        part_detail == Get(kwargs, "part_detail", detail_default)
        supplier_detail == Get(kwargs, "supplier_detail", detail_default)
        manufacturer_detail == Get(kwargs, "manufacturer_detail", detail_default)
        prettify == Get(kwargs, "pretty", FALSE)
        f1 == PopIf(SupplierPart_Meta_fields, part_detail # TRUE, "part_detail")
        f2 == PopIf(f1, supplier_detail # TRUE, "supplier_detail")
        f3 == PopIf(PopIf(f2, manufacturer_detail # TRUE, "manufacturer_detail"),
                    manufacturer_detail # TRUE, "manufacturer_part_detail")
    IN  PopIf(f3, prettify # TRUE, "pretty_name")

SupplierPriceBreakSerializer_init(kwargs) ==
    LET supplier_detail == Get(kwargs, "supplier_detail", FALSE)
        part_detail == Get(kwargs, "part_detail", FALSE)
        f1 == PopIf(SupplierPriceBreak_Meta_fields, ~supplier_detail, "supplier_detail")
    IN  PopIf(f1, ~part_detail, "part_detail")

\* the active field set of a serializer of class cls built with kwargs
Fields(cls, kwargs) ==
    CASE cls = "ManufacturerPartSerializer" -> ManufacturerPartSerializer_init(kwargs)
      [] cls = "ManufacturerPartParameterSerializer" ->
            ManufacturerPartParameterSerializer_init(kwargs)
      [] cls = "SupplierPartSerializer" -> SupplierPartSerializer_init(kwargs)
      [] cls = "SupplierPriceBreakSerializer" -> SupplierPriceBreakSerializer_init(kwargs)
      [] cls = "CompanyBriefSerializer" -> CompanyBrief_Meta_fields
      [] OTHER -> {}

(***************************************************************************)
(* Nested serializer fields as declared in each class body: field name ->  *)
(* the class and the keyword arguments of the embedded serializer.         *)
(***************************************************************************)
Embed(cls, kwargs) == [cls |-> cls, kwargs |-> kwargs]

NoKwargs == [k \in {} |-> TRUE]

SupplierPriceBreak_part_detail_notbrief == Embed("SupplierPartSerializer", NoKwargs)

SupplierPriceBreak_part_detail ==
    Embed("SupplierPartSerializer", [brief |-> TRUE])

Declared(cls) ==
    CASE cls = "ManufacturerPartSerializer" ->
            [part_detail |-> Embed("PartBriefSerializer", NoKwargs),
             manufacturer_detail |-> Embed("CompanyBriefSerializer", NoKwargs)]
      [] cls = "ManufacturerPartParameterSerializer" ->
            [manufacturer_part_detail |-> Embed("ManufacturerPartSerializer", NoKwargs)]
      [] cls = "SupplierPartSerializer" ->
            [part_detail |-> Embed("PartBriefSerializer", NoKwargs),
             supplier_detail |-> Embed("CompanyBriefSerializer", NoKwargs),
             manufacturer_detail |-> Embed("CompanyBriefSerializer", NoKwargs),
             manufacturer_part_detail |-> Embed("ManufacturerPartSerializer", NoKwargs)]
      [] cls = "SupplierPriceBreakSerializer" ->
            [supplier_detail |-> Embed("CompanyBriefSerializer", NoKwargs),
             part_detail |-> SupplierPriceBreak_part_detail]
      [] OTHER -> NoKwargs

\* the nested fields that are active in a serializer of class cls built with kwargs
ActiveNested(cls, kwargs) == Fields(cls, kwargs) \cap DOMAIN Declared(cls)

RECURSIVE Depth(_, _)
\* number of serializer levels of the output of a serializer: 1 when it embeds nothing
Depth(cls, kwargs) ==
    LET below == {Depth(Declared(cls)[f].cls, Declared(cls)[f].kwargs) :
                    f \in ActiveNested(cls, kwargs)}
    IN  IF below = {} THEN 1
        ELSE 1 + CHOOSE d \in below : \A e \in below : e <= d

\* the serializer object after construction
Construct(cls, kwargs) ==
    [cls |-> cls,
     kwargs |-> kwargs,
     fields |-> Fields(cls, kwargs),
     nested |-> [f \in ActiveNested(cls, kwargs) |->
                    Fields(Declared(cls)[f].cls, Declared(cls)[f].kwargs)],
     depth |-> Depth(cls, kwargs)]

NoSerializer ==
    [cls |-> "None", kwargs |-> NoKwargs, fields |-> {}, nested |-> NoKwargs, depth |-> 0]

(***************************************************************************)
(* The Company table the part serializers refer to, and the tables.        *)
(* Company 1 is a supplier only, company 2 a manufacturer only.            *)
(***************************************************************************)
Company ==
    <<[is_supplier |-> TRUE, is_manufacturer |-> FALSE],
      [is_supplier |-> FALSE, is_manufacturer |-> TRUE]>>

\* number of requests a behaviour makes
MaxRequests == 3

\* raw request values are strings: the primary keys and decimals they denote
PkStrings == {"1", "2"}

ParsePk(raw) == CASE raw = "1" -> 1 [] raw = "2" -> 2

ParseDecimal(raw) == CASE raw = "0" -> 0 [] raw = "50" -> 50

\* queryset=Company.objects.filter(is_supplier=True)
SupplierQueryset == {pk \in DOMAIN Company : Company[pk].is_supplier}

\* queryset=Company.objects.filter(is_manufacturer=True)
ManufacturerQueryset == {pk \in DOMAIN Company : Company[pk].is_manufacturer}

\* every dict over a subset of the keys of `values`, each key with one of its values
Dicts(values) ==
    UNION {{d \in [K -> UNION {values[k] : k \in K}] : \A k \in K : d[k] \in values[k]} :
             K \in SUBSET DOMAIN values}

\* request payloads (self.initial_data) of the SupplierPart endpoints
SupplierPartPayloads ==
    Dicts([supplier |-> {"1", "2"},
           available |-> {"", "0", "50"},
           manufacturer |-> {"", "1", "2"},
           MPN |-> {"", "ABC123"}])

\* request payloads of the ManufacturerPart endpoints
ManufacturerPartPayloads ==
    Dicts([manufacturer |-> {"1", "2"}, MPN |-> {"ABC123", "XYZ"}])

\* dict.get(key, None) / dict.pop(key, None)
GetOpt(d, key) == IF key \in DOMAIN d THEN Some(d[key]) ELSE None

\* Python truth of a raw value read with .get(key, None)
Truthy(x) == x # None /\ x[1] # ""

(***************************************************************************)
(* The world a handler works on: the two tables, the clock and the calls   *)
(* the handler has made so far.                                            *)
(***************************************************************************)
World == [sp |-> supplier_parts, mp |-> manufacturer_parts, now |-> now, calls |-> <<>>]

Call(fn, pk, args) == [fn |-> fn, pk |-> pk, args |-> args]

\* the generic create: one new SupplierPart row from the data it is given
ModelSerializer_create(w, data) ==
    LET row == [supplier |-> data.supplier,
                available |-> Get(data, "available", 0),
                availability_updated |-> None,
                manufacturer_part |-> None]
    IN  [w EXCEPT !.sp = Append(@, row),
                  !.calls = Append(@, Call("super.create", Len(w.sp) + 1, data))]

\* the generic update: writes every entry of the data to the row
ModelSerializer_update(w, pk, data) ==
    LET old == w.sp[pk]
        row == [old EXCEPT !.supplier = Get(data, "supplier", old.supplier),
                           !.available = Get(data, "available", old.available)]
    IN  [w EXCEPT !.sp[pk] = row,
                  !.calls = Append(@, Call("super.update", pk, data))]

\* SupplierPart.update_available_quantity(quantity)
update_available_quantity(w, pk, quantity) ==
    [w EXCEPT !.sp[pk].available = quantity,
              !.sp[pk].availability_updated = Some(w.now),
              !.calls = Append(@, Call("update_available_quantity", pk,
                                       [quantity |-> quantity]))]

\* SupplierPart.save(manufacturer=..., MPN=...): links the ManufacturerPart of that
\* manufacturer and MPN, creating it when there is none
SupplierPart_save(w, pk, kwargs) ==
    LET both == /\ {"manufacturer", "MPN"} \subseteq DOMAIN kwargs
                /\ kwargs.manufacturer \in PkStrings
        m == ParsePk(kwargs.manufacturer)
        found == {i \in DOMAIN w.mp :
                    w.mp[i].manufacturer = m /\ w.mp[i].MPN = kwargs.MPN}
        mp1 == IF found = {}
               THEN Append(w.mp, [manufacturer |-> m, MPN |-> kwargs.MPN])
               ELSE w.mp
        link == IF found = {} THEN Len(mp1) ELSE CHOOSE i \in found : TRUE
        logged == [w EXCEPT !.calls = Append(@, Call("save", pk, kwargs))]
    IN  IF both
        THEN [logged EXCEPT !.mp = mp1, !.sp[pk].manufacturer_part = Some(link)]
        ELSE logged

(***************************************************************************)
(* SupplierPartSerializer: __init__, validation, create, update.           *)
(***************************************************************************)
\* self.has_available_quantity = 'available' in kwargs.get('data', {})
SupplierPartSerializer_has_available_quantity(kwargs) ==
    "available" \in DOMAIN Get(kwargs, "data", NoKwargs)

\* the serializer object a request handler builds from the request payload
SupplierPartSerializer_new(data) ==
    [has_available_quantity |->
        SupplierPartSerializer_has_available_quantity([data |-> data]),
     initial_data |-> data]

\* is_valid(): supplier is required unless the update is partial, and must be in the
\* queryset of suppliers
SupplierPart_is_valid(data, partial) ==
    IF "supplier" \in DOMAIN data
    THEN ParsePk(data.supplier) \in SupplierQueryset
    ELSE partial

\* validated_data: the writable fields given; manufacturer and MPN are read-only and
\* a blank decimal is skipped
SupplierPart_validated_data(data) ==
    LET keys == {k \in DOMAIN data \cap {"supplier", "available"} :
                    ~(k = "available" /\ data[k] = "")}
    IN  [k \in keys |-> IF k = "supplier" THEN ParsePk(data[k]) ELSE ParseDecimal(data[k])]

\* on create the base serializer may add the model's default for a field the
\* payload does not name: available = 0
WithModelDefault(data, validated_data) ==
    IF "available" \in DOMAIN data
    THEN validated_data
    ELSE [k \in DOMAIN validated_data \cup {"available"} |->
            IF k = "available" THEN 0 ELSE validated_data[k]]

create_data_keep(validated_data) == validated_data

\* validated_data after validated_data.pop('available', None)
create_data(validated_data) == Without(validated_data, "available")

\* data after data.pop('available', None)
update_data(data) == Without(data, "available")

create_available_noflag(w, self, supplier_part, available) ==
    IF available # None
    THEN update_available_quantity(w, supplier_part, available[1])
    ELSE w

\* if available is not None and self.has_available_quantity: ...
create_available(w, self, supplier_part, available) ==
    IF available # None /\ self.has_available_quantity
    THEN update_available_quantity(w, supplier_part, available[1])
    ELSE w

create_manufacturer_nokwargs(w, self, supplier_part) ==
    LET manufacturer == GetOpt(self.initial_data, "manufacturer")
        MPN == GetOpt(self.initial_data, "MPN")
    IN  IF Truthy(manufacturer) /\ Truthy(MPN)
        THEN SupplierPart_save(w, supplier_part, NoKwargs)
        ELSE w

create_manufacturer_present(w, self, supplier_part) ==
    LET manufacturer == GetOpt(self.initial_data, "manufacturer")
        MPN == GetOpt(self.initial_data, "MPN")
    IN  IF manufacturer # None /\ MPN # None
        THEN SupplierPart_save(w, supplier_part,
                               [manufacturer |-> manufacturer[1], MPN |-> MPN[1]])
        ELSE w

\* if manufacturer and MPN: supplier_part.save(manufacturer=manufacturer, MPN=MPN)
create_manufacturer(w, self, supplier_part) ==
    LET manufacturer == GetOpt(self.initial_data, "manufacturer")
        MPN == GetOpt(self.initial_data, "MPN")
    IN  IF Truthy(manufacturer) /\ Truthy(MPN)
        THEN SupplierPart_save(w, supplier_part,
                               [manufacturer |-> manufacturer[1], MPN |-> MPN[1]])
        ELSE w

\* SupplierPartSerializer.create(validated_data): the world after, and the response
SupplierPartSerializer_create(w, self, validated_data) ==
    LET available == GetOpt(validated_data, "available")
        w1 == ModelSerializer_create(w, create_data(validated_data))
        supplier_part == Len(w1.sp)
        w2 == create_available(w1, self, supplier_part, available)
        w3 == create_manufacturer(w2, self, supplier_part)
    IN  [world |-> w3, response |-> Some(supplier_part)]

SupplierPartSerializer_update_early(w, self, supplier_part, data) ==
    LET available == GetOpt(data, "available")
        w0 == IF available # None /\ self.has_available_quantity
              THEN update_available_quantity(w, supplier_part, available[1])
              ELSE w
        w1 == ModelSerializer_update(w0, supplier_part, update_data(data))
    IN  [world |-> w1, response |-> Some(supplier_part)]

\* SupplierPartSerializer.update(supplier_part, data)
SupplierPartSerializer_update(w, self, supplier_part, data) ==
    LET available == GetOpt(data, "available")
        w1 == ModelSerializer_update(w, supplier_part, update_data(data))
        response == Some(supplier_part)
        w2 == IF available # None /\ self.has_available_quantity
              THEN update_available_quantity(w1, supplier_part, available[1])
              ELSE w1
    IN  [world |-> w2, response |-> response]

(***************************************************************************)
(* ManufacturerPartSerializer: the generic create and update, behind the   *)
(* manufacturer field's queryset.                                          *)
(***************************************************************************)
ManufacturerPart_is_valid(data, partial) ==
    /\ IF "manufacturer" \in DOMAIN data
       THEN ParsePk(data.manufacturer) \in ManufacturerQueryset
       ELSE partial
    /\ "MPN" \in DOMAIN data \/ partial

ManufacturerPart_validated_data(data) ==
    [k \in DOMAIN data |-> IF k = "manufacturer" THEN ParsePk(data[k]) ELSE data[k]]

ManufacturerPartSerializer_create(w, validated_data) ==
    [w EXCEPT !.mp = Append(@, [manufacturer |-> validated_data.manufacturer,
                                MPN |-> validated_data.MPN]),
              !.calls = Append(@, Call("super.create", Len(w.mp) + 1, validated_data))]

ManufacturerPartSerializer_update(w, pk, validated_data) ==
    LET old == w.mp[pk]
    IN  [w EXCEPT !.mp[pk] = [manufacturer |-> Get(validated_data, "manufacturer",
                                                   old.manufacturer),
                              MPN |-> Get(validated_data, "MPN", old.MPN)],
                  !.calls = Append(@, Call("super.update", pk, validated_data))]

(***************************************************************************)
(* Requests.                                                               *)
(***************************************************************************)
Request(op, outcome, data, validated_data, instance, response) ==
    [op |-> op, outcome |-> outcome, data |-> data, validated_data |-> validated_data,
     instance |-> instance, response |-> response, time |-> now]

NoRequest ==
    [op |-> "none", outcome |-> "none", data |-> NoKwargs, validated_data |-> NoKwargs,
     instance |-> None, response |-> None, time |-> 0]

\* a request that fails validation: a validation error, and nothing is written
Rejected(op, data, instance) ==
    /\ last' = Request(op, "invalid", data, NoKwargs, instance, None)
    /\ calls' = <<>>
    /\ UNCHANGED <<supplier_parts, manufacturer_parts>>

\* a request that was carried out: the tables and the calls of the world it left
Done(op, data, validated_data, instance, result) ==
    /\ last' = Request(op, "ok", data, validated_data, instance, result.response)
    /\ calls' = result.world.calls
    /\ supplier_parts' = result.world.sp
    /\ manufacturer_parts' = result.world.mp

SupplierPartCreate ==
    \E data \in SupplierPartPayloads :
        /\ now <= MaxRequests
        /\ now' = now + 1
        /\ UNCHANGED <<ser, company_image>>
        /\ IF SupplierPart_is_valid(data, FALSE)
           THEN \E validated_data \in
                        {SupplierPart_validated_data(data),
                         WithModelDefault(data, SupplierPart_validated_data(data))} :
                    Done("SupplierPart.create", data, validated_data, None,
                         SupplierPartSerializer_create(
                            World, SupplierPartSerializer_new(data), validated_data))
           ELSE Rejected("SupplierPart.create", data, None)

SupplierPartUpdate ==
    \E supplier_part \in DOMAIN supplier_parts :
        \E data \in {d \in SupplierPartPayloads :
                        DOMAIN d \subseteq {"supplier", "available"}} :
            /\ now <= MaxRequests
            /\ now' = now + 1
            /\ UNCHANGED <<ser, company_image>>
            /\ IF SupplierPart_is_valid(data, TRUE)
               THEN Done("SupplierPart.update", data, SupplierPart_validated_data(data),
                         Some(supplier_part),
                         SupplierPartSerializer_update(
                            World, SupplierPartSerializer_new(data), supplier_part,
                            SupplierPart_validated_data(data)))
               ELSE Rejected("SupplierPart.update", data, Some(supplier_part))

ManufacturerPartCreate ==
    \E data \in ManufacturerPartPayloads :
        /\ now <= MaxRequests
        /\ now' = now + 1
        /\ UNCHANGED <<ser, company_image>>
        /\ IF ManufacturerPart_is_valid(data, FALSE)
           THEN Done("ManufacturerPart.create", data,
                     ManufacturerPart_validated_data(data), None,
                     [world |-> ManufacturerPartSerializer_create(
                                    World, ManufacturerPart_validated_data(data)),
                      response |-> Some(Len(manufacturer_parts) + 1)])
           ELSE Rejected("ManufacturerPart.create", data, None)

ManufacturerPartUpdate ==
    \E pk \in DOMAIN manufacturer_parts :
        \E data \in ManufacturerPartPayloads :
            /\ now <= MaxRequests
            /\ now' = now + 1
            /\ UNCHANGED <<ser, company_image>>
            /\ IF ManufacturerPart_is_valid(data, TRUE)
               THEN Done("ManufacturerPart.update", data,
                         ManufacturerPart_validated_data(data), Some(pk),
                         [world |-> ManufacturerPartSerializer_update(
                                        World, pk, ManufacturerPart_validated_data(data)),
                          response |-> Some(pk)])
               ELSE Rejected("ManufacturerPart.update", data, Some(pk))

(***************************************************************************)
(* Constructor calls, for the field sets.                                  *)
(***************************************************************************)
Constructed(cls, kwargs) ==
    /\ ser' = Construct(cls, kwargs)
    /\ UNCHANGED <<supplier_parts, manufacturer_parts, calls, last, now, company_image>>

ManufacturerPartSerializerInit ==
    \E kwargs \in FlagDicts({"part_detail", "manufacturer_detail", "pretty"}) :
        Constructed("ManufacturerPartSerializer", kwargs)

ManufacturerPartParameterSerializerInit ==
    \E kwargs \in FlagDicts({"manufacturer_part_detail"}) :
        Constructed("ManufacturerPartParameterSerializer", kwargs)

SupplierPartSerializerInit ==
    \E kwargs \in FlagDicts({"brief", "part_detail", "supplier_detail",
                             "manufacturer_detail", "pretty"}) :
        Constructed("SupplierPartSerializer", kwargs)

SupplierPriceBreakSerializerInit ==
    \E kwargs \in FlagDicts({"supplier_detail", "part_detail"}) :
        Constructed("SupplierPriceBreakSerializer", kwargs)

(***************************************************************************)
(* CompanySerializer.save and the remote image.  A downloaded file is its  *)
(* format, its pixels and the encoder's ancillary bytes (metadata,         *)
(* compression settings); the image object built from it holds the pixels  *)
(* and, unless the loader converted it, the format.                        *)
(***************************************************************************)
\* number of Company rows
MaxCompanies == 2

ImageFiles ==
    [format : {"PNG", "JPEG"}, pixels : {"p1", "p2"}, extra : {"default", "other"}]

\* the image objects the remote image mixin can leave in remote_image_file for a file
RemoteImageObjects(file) ==
    {[format |-> Some(file.format), pixels |-> file.pixels],
     [format |-> None, pixels |-> file.pixels]}

\* remote_img.save(buffer, format=fmt): the bytes the encoder writes
PIL_save(img, fmt) == [format |-> fmt, pixels |-> img.pixels, extra |-> "default"]

\* reading a file back as an image
PIL_open(file) == [format |-> Some(file.format), pixels |-> file.pixels]

Lower_keep(fmt) == fmt

\* fmt.lower()
Lower(fmt) == CASE fmt = "PNG" -> "png" [] fmt = "JPEG" -> "jpeg"

\* f"company_{company.pk}_image.{ext}"
company_image_filename(pk, ext) ==
    [prefix |-> "company_", pk |-> pk, infix |-> "_image.", ext |-> ext]

\* CompanySerializer.save(): the image table after, the calls made and the response
CompanySerializer_save(images, self) ==
    LET saved == IF self.instance = None THEN Append(images, None) ELSE images
        company == IF self.instance = None THEN Some(Len(saved)) ELSE self.instance
        remote_img == self.remote_image_file
        first == <<Call("super.save", company[1], NoKwargs)>>
    IN  IF remote_img # None /\ company # None
        THEN LET fmt == IF remote_img[1].format # None
                        THEN remote_img[1].format[1]
                        ELSE "PNG"
                 buffer == PIL_save(remote_img[1], fmt)
                 filename == company_image_filename(company[1], Lower(fmt))
             IN  [images |-> [saved EXCEPT ![company[1]] =
                                Some([name |-> filename, content |-> buffer])],
                  calls |-> Append(first, Call("image.save", company[1],
                                               [name |-> filename])),
                  response |-> company]
        ELSE [images |-> saved, calls |-> first, response |-> company]

CompanySave ==
    \E instance \in {None} \cup {Some(pk) : pk \in DOMAIN company_image} :
        \E fetched \in {None} \cup {Some(f) : f \in ImageFiles} :
            \E remote_img \in IF fetched = None THEN {None}
                              ELSE {Some(i) : i \in RemoteImageObjects(fetched[1])} :
                LET result == CompanySerializer_save(
                                 company_image,
                                 [instance |-> instance, remote_image_file |-> remote_img])
                IN  /\ instance = None => Len(company_image) < MaxCompanies
                    /\ company_image' = result.images
                    /\ calls' = result.calls
                    /\ last' = [op |-> "Company.save", instance |-> instance,
                                fetched |-> fetched, remote_image_file |-> remote_img,
                                before |-> company_image, response |-> result.response]
                    /\ UNCHANGED <<ser, supplier_parts, manufacturer_parts, now>>

(***************************************************************************)
(* Specifications.                                                         *)
(***************************************************************************)
Init ==
    /\ ser = NoSerializer
    /\ supplier_parts = <<>>
    /\ manufacturer_parts = <<>>
    /\ calls = <<>>
    /\ last = NoRequest
    /\ now = 1
    /\ company_image = <<>>

Next ==
    \/ SupplierPartCreate
    \/ SupplierPartUpdate
    \/ ManufacturerPartCreate
    \/ ManufacturerPartUpdate

Spec == Init /\ [][Next]_vars

NextFields ==
    \/ ManufacturerPartSerializerInit
    \/ ManufacturerPartParameterSerializerInit
    \/ SupplierPartSerializerInit
    \/ SupplierPriceBreakSerializerInit

SpecFields == Init /\ [][NextFields]_vars

NextCompany == CompanySave

SpecCompany == Init /\ [][NextCompany]_vars

(***************************************************************************)
(* Properties.                                                             *)
(***************************************************************************)
\* the functions called by the last handler, in order
CallFns == [i \in DOMAIN calls |-> calls[i].fn]

CreatedOk == last.op = "SupplierPart.create" /\ last.outcome = "ok"

\* the raw payload names the key with a non-empty value
HasValue(data, key) == key \in DOMAIN data /\ data[key] # ""

\* C1: SupplierPartSerializer.create with 'available' and a value in the payload
\* sets the new row's availability to that value through update_available_quantity,
\* which stamps the timestamp, after the generic create; without the key in the
\* payload, update_available_quantity is not called and the availability and its
\* timestamp stay as the generic create left them.
C1_CreateAvailable ==
    CreatedOk =>
        LET pk == last.response[1]
            row == supplier_parts[pk]
        IN  /\ HasValue(last.data, "available") =>
                LET q == ParseDecimal(last.data.available)
                IN  /\ row.available = q
                    /\ row.availability_updated = Some(last.time)
                    /\ \E i, j \in DOMAIN calls :
                          /\ i < j
                          /\ calls[i].fn = "super.create"
                          /\ calls[j].fn = "update_available_quantity"
                          /\ calls[j].pk = pk
                          /\ calls[j].args.quantity = q
            /\ "available" \notin DOMAIN last.data =>
                /\ \A i \in DOMAIN calls : calls[i].fn # "update_available_quantity"
                /\ row.availability_updated = None
                /\ row.available = 0

C1_Witness ==
    /\ CreatedOk
    /\ HasValue(last.data, "available")
    /\ last.data.available = "50"
    /\ supplier_parts[last.response[1]].available = 50
    /\ supplier_parts[last.response[1]].availability_updated # None

\* C2: when the raw input of create holds a manufacturer reference and an MPN (both
\* non-empty), create calls save(manufacturer=..., MPN=...) on the new SupplierPart
\* after the generic create, and the SupplierPart ends up linked to a
\* ManufacturerPart with that MPN.
C2_SecondarySave ==
    (CreatedOk /\ HasValue(last.data, "manufacturer") /\ HasValue(last.data, "MPN")) =>
        LET pk == last.response[1]
            row == supplier_parts[pk]
        IN  /\ \E i, j \in DOMAIN calls :
                  /\ i < j
                  /\ calls[i].fn = "super.create"
                  /\ calls[j].fn = "save"
                  /\ calls[j].pk = pk
                  /\ calls[j].args = [manufacturer |-> last.data.manufacturer,
                                      MPN |-> last.data.MPN]
            /\ row.manufacturer_part # None
            /\ manufacturer_parts[row.manufacturer_part[1]].MPN = last.data.MPN
            /\ manufacturer_parts[row.manufacturer_part[1]].manufacturer =
                    ParsePk(last.data.manufacturer)

C2_Witness ==
    /\ CreatedOk
    /\ HasValue(last.data, "manufacturer")
    /\ HasValue(last.data, "MPN")
    /\ last.data.MPN = "ABC123"
    /\ supplier_parts[last.response[1]].manufacturer_part # None

\* C3: in every step, the generic create and the generic update are given data
\* without an 'available' entry, and the availability of a SupplierPart row differs
\* from what it was (for a new row: from the model's default) only if the handler
\* called update_available_quantity on that row with the new value.
C3_AvailableOnlyByUpdateMethod ==
    [][ /\ \A i \in DOMAIN calls' :
              calls'[i].fn \in {"super.create", "super.update"} =>
                  "available" \notin DOMAIN calls'[i].args
        /\ \A pk \in DOMAIN supplier_parts' :
              LET old == IF pk \in DOMAIN supplier_parts
                         THEN supplier_parts[pk].available
                         ELSE 0
                  new == supplier_parts'[pk].available
              IN  new # old =>
                      \E i \in DOMAIN calls' :
                          /\ calls'[i].fn = "update_available_quantity"
                          /\ calls'[i].pk = pk
                          /\ calls'[i].args.quantity = new ]_vars

C3_Witness ==
    /\ CreatedOk
    /\ "available" \notin DOMAIN last.data
    /\ "available" \in DOMAIN last.validated_data
    /\ "available" \notin DOMAIN calls[1].args
    /\ supplier_parts[last.response[1]].availability_updated = None

\* C8 (as claimed): every SupplierPart's supplier has the supplier role and every
\* ManufacturerPart's manufacturer has the manufacturer role, after any sequence of
\* create and update requests of the two part serializers; a rejected request has
\* made no call.
C8_RolesHold ==
    /\ \A pk \in DOMAIN supplier_parts : Company[supplier_parts[pk].supplier].is_supplier
    /\ \A pk \in DOMAIN manufacturer_parts :
          Company[manufacturer_parts[pk].manufacturer].is_manufacturer
    /\ last.outcome = "invalid" => calls = <<>>

\* C9: SupplierPartSerializer.update runs the generic update first, on data without
\* 'available', and returns its result; update_available_quantity is applied after
\* it with the extracted value when the payload held the key with a value, and
\* otherwise the availability and its timestamp are unchanged.
C9_UpdateAvailable ==
    [][ (last'.op = "SupplierPart.update" /\ last'.outcome = "ok") =>
            LET pk == last'.instance[1]
                old == supplier_parts[pk]
                new == supplier_parts'[pk]
                applies == HasValue(last'.data, "available")
            IN  /\ last'.response = Some(pk)
                /\ calls'[1].fn = "super.update"
                /\ calls'[1].pk = pk
                /\ "available" \notin DOMAIN calls'[1].args
                /\ applies =>
                      /\ Len(calls') = 2
                      /\ calls'[2].fn = "update_available_quantity"
                      /\ calls'[2].pk = pk
                      /\ calls'[2].args.quantity = ParseDecimal(last'.data.available)
                      /\ new.available = ParseDecimal(last'.data.available)
                      /\ new.availability_updated = Some(last'.time)
                /\ ~applies =>
                      /\ Len(calls') = 1
                      /\ new.available = old.available
                      /\ new.availability_updated = old.availability_updated ]_vars

C9_Witness ==
    /\ last.op = "SupplierPart.update"
    /\ last.outcome = "ok"
    /\ HasValue(last.data, "available")
    /\ last.data.available = "50"
    /\ supplier_parts[last.instance[1]].available = 50
    /\ CallFns = <<"super.update", "update_available_quantity">>

\* C10: create makes its calls in the order generic create, availability update (if
\* the payload held 'available' and a value was extracted), secondary save (iff the
\* raw manufacturer and the raw MPN are both present and non-empty), all on the one
\* new row; with one of the two missing or empty there is one generic create and no
\* secondary save.
C10_CreateOrder ==
    CreatedOk =>
        LET applies == /\ "available" \in DOMAIN last.data
                       /\ "available" \in DOMAIN last.validated_data
            both == HasValue(last.data, "manufacturer") /\ HasValue(last.data, "MPN")
        IN  /\ CallFns = <<"super.create">>
                          \o (IF applies THEN <<"update_available_quantity">> ELSE <<>>)
                          \o (IF both THEN <<"save">> ELSE <<>>)
            /\ \A i \in DOMAIN calls : calls[i].pk = last.response[1]
            /\ last.response[1] = Len(supplier_parts)

C10_Witness ==
    /\ CreatedOk
    /\ HasValue(last.data, "manufacturer")
    /\ "MPN" \in DOMAIN last.data
    /\ last.data.MPN = ""
    /\ CallFns = <<"super.create", "update_available_quantity">>

\* the value a constructor flag takes: the one given, or the default when omitted
Flag(kwargs, name, default) == IF name \in DOMAIN kwargs THEN kwargs[name] ELSE default

SupplierPartDetails == {"part_detail", "supplier_detail", "manufacturer_detail"}

\* C4 (as claimed): for SupplierPartSerializer each of part_detail, supplier_detail
\* and manufacturer_detail is present iff the serializer is not in brief mode and the
\* flag was not explicitly disabled; pretty_name is present iff 'pretty' is true.
C4_BriefAndNotDisabled ==
    ser.cls = "SupplierPartSerializer" =>
        /\ \A f \in SupplierPartDetails :
              f \in ser.fields <=>
                  /\ ~Flag(ser.kwargs, "brief", FALSE)
                  /\ ~(f \in DOMAIN ser.kwargs /\ ser.kwargs[f] = FALSE)
        /\ "pretty_name" \in ser.fields <=> Flag(ser.kwargs, "pretty", FALSE)

\* C4 (amended): each of the three detail fields is present iff its flag was given as
\* True, or was omitted and the serializer is not in brief mode (brief only sets the
\* default of the three flags); pretty_name is present iff 'pretty' is true.
C4_BriefIsDefault ==
    ser.cls = "SupplierPartSerializer" =>
        /\ \A f \in SupplierPartDetails :
              f \in ser.fields <=>
                  \/ f \in DOMAIN ser.kwargs /\ ser.kwargs[f] = TRUE
                  \/ f \notin DOMAIN ser.kwargs /\ ~Flag(ser.kwargs, "brief", FALSE)
        /\ "pretty_name" \in ser.fields <=> Flag(ser.kwargs, "pretty", FALSE)

C4_Witness ==
    /\ ser.cls = "SupplierPartSerializer"
    /\ ser.kwargs = [brief |-> TRUE, part_detail |-> TRUE]
    /\ "part_detail" \in ser.fields
    /\ "supplier_detail" \notin ser.fields

\* the toggle flags of a serializer class: flag -> the field it controls and the
\* value the flag has when omitted
Toggles(cls) ==
    CASE cls = "ManufacturerPartSerializer" ->
            [part_detail |-> [field |-> "part_detail", default |-> TRUE],
             manufacturer_detail |-> [field |-> "manufacturer_detail", default |-> TRUE],
             pretty |-> [field |-> "pretty_name", default |-> FALSE]]
      [] cls = "ManufacturerPartParameterSerializer" ->
            [manufacturer_part_detail |->
                [field |-> "manufacturer_part_detail", default |-> FALSE]]
      [] cls = "SupplierPriceBreakSerializer" ->
            [supplier_detail |-> [field |-> "supplier_detail", default |-> FALSE],
             part_detail |-> [field |-> "part_detail", default |-> FALSE]]

DeclaredFields(cls) ==
    CASE cls = "ManufacturerPartSerializer" -> ManufacturerPart_Meta_fields
      [] cls = "ManufacturerPartParameterSerializer" ->
            ManufacturerPartParameter_Meta_fields
      [] cls = "SupplierPriceBreakSerializer" -> SupplierPriceBreak_Meta_fields

\* C5: for ManufacturerPartSerializer, ManufacturerPartParameterSerializer and
\* SupplierPriceBreakSerializer each toggleable field is present iff its flag is
\* true (omitted: on for the two ManufacturerPart details, off for the others),
\* every other declared field is present, and a field's presence depends on its own
\* flag alone.
C5_Toggles ==
    ser.cls \in {"ManufacturerPartSerializer", "ManufacturerPartParameterSerializer",
                 "SupplierPriceBreakSerializer"} =>
        LET t == Toggles(ser.cls)
            toggled == {t[flag].field : flag \in DOMAIN t}
        IN  /\ \A flag \in DOMAIN t :
                  t[flag].field \in ser.fields <=>
                      Flag(ser.kwargs, flag, t[flag].default)
            /\ DeclaredFields(ser.cls) \ toggled \subseteq ser.fields
            /\ ser.fields \subseteq DeclaredFields(ser.cls)
            /\ \A flag \in DOMAIN t :
                  \A other \in FlagDicts(DOMAIN t) :
                      Flag(other, flag, t[flag].default) =
                            Flag(ser.kwargs, flag, t[flag].default) =>
                          (t[flag].field \in Fields(ser.cls, other) <=>
                                t[flag].field \in ser.fields)

C5_Witness ==
    /\ ser.cls = "ManufacturerPartSerializer"
    /\ ser.kwargs = [part_detail |-> FALSE, pretty |-> TRUE]
    /\ "pretty_name" \in ser.fields
    /\ "part_detail" \notin ser.fields
    /\ "manufacturer_detail" \in ser.fields

SupplierPartNested ==
    {"part_detail", "supplier_detail", "manufacturer_detail", "manufacturer_part_detail"}

\* C7: when SupplierPriceBreakSerializer keeps part_detail, the embedded
\* SupplierPart view is built with brief=True and holds none of part_detail,
\* supplier_detail, manufacturer_detail, manufacturer_part_detail, so the output is
\* two serializer levels deep and no deeper.
C7_BriefEmbedding ==
    (ser.cls = "SupplierPriceBreakSerializer" /\ "part_detail" \in ser.fields) =>
        /\ "part_detail" \in DOMAIN ser.nested
        /\ ser.nested["part_detail"] \cap SupplierPartNested = {}
        /\ ser.nested["part_detail"] = SupplierPart_Meta_fields \
                                        (SupplierPartNested \cup {"pretty_name"})
        /\ ser.depth = 2

C7_Witness ==
    /\ ser.cls = "SupplierPriceBreakSerializer"
    /\ ser.kwargs = [part_detail |-> TRUE]
    /\ "part_detail" \in ser.fields
    /\ "supplier" \in ser.nested["part_detail"]

CompanySaved == last.op = "Company.save"

\* C6 (as claimed): after a save with a fetched remote image the Company's stored
\* image is named company_<pk>_image.<format in lower case> and its content is the
\* fetched bytes, written after the generic save; without a fetched image save does
\* not write the stored image.
C6_StoredIsFetched ==
    CompanySaved =>
        LET pk == last.response[1]
        IN  IF last.fetched # None
            THEN /\ company_image[pk] # None
                 /\ company_image[pk][1].name =
                        company_image_filename(pk, Lower(last.fetched[1].format))
                 /\ company_image[pk][1].content = last.fetched[1]
                 /\ CallFns = <<"super.save", "image.save">>
            ELSE /\ CallFns = <<"super.save">>
                 /\ last.instance # None => company_image[pk] = last.before[pk]

\* C6 (amended): after a save with a fetched remote image the stored image is named
\* company_<pk>_image.<fmt in lower case>, fmt being the image object's format or PNG
\* when it has none, and its content is the image re-encoded as fmt: bytes of format
\* fmt that read back as the fetched pixels (not the fetched bytes themselves),
\* written after the generic save; without a fetched image save does not write the
\* stored image.
C6_StoredIsReencoded ==
    CompanySaved =>
        LET pk == last.response[1]
        IN  IF last.fetched # None
            THEN LET img == last.remote_image_file[1]
                     fmt == IF img.format = None THEN "PNG" ELSE img.format[1]
                     ext == CASE fmt = "PNG" -> "png" [] fmt = "JPEG" -> "jpeg"
                 IN  /\ company_image[pk] # None
                     /\ company_image[pk][1].name =
                            [prefix |-> "company_", pk |-> pk, infix |-> "_image.",
                             ext |-> ext]
                     /\ company_image[pk][1].content.format = fmt
                     /\ PIL_open(company_image[pk][1].content).pixels =
                            last.fetched[1].pixels
                     /\ CallFns = <<"super.save", "image.save">>
                     /\ calls[2].pk = pk
            ELSE /\ CallFns = <<"super.save">>
                 /\ last.instance # None => company_image[pk] = last.before[pk]

C6_Witness ==
    /\ CompanySaved
    /\ last.instance # None
    /\ last.fetched # None
    /\ last.fetched[1].format = "JPEG"
    /\ last.fetched[1].extra = "other"
    /\ company_image[last.response[1]] # None
    /\ company_image[last.response[1]][1].name.ext = "jpeg"
    /\ company_image[last.response[1]][1].content # last.fetched[1]

====
